---- MODULE Spec2Model ----
(***************************************************************************)
(* Model of the preview server's real-time coordination layer:             *)
(*   - the signaling rendezvous (setUpRendezvous: sse middleware, the      *)
(*     announce / signal / listen routes, the per-connection keep-alive),  *)
(*   - the live-reload broadcast (the onProcessingComplete callback over   *)
(*     wss.clients),                                                       *)
(*   - the startup sequence of Preview.startServer.                        *)
(* JavaScript is run-to-completion: each request handler or timer callback *)
(* is one atomic action.                                                   *)
(***************************************************************************)
EXTENDS Integers, Sequences, FiniteSets, TLC

\* ---------------------------------------------------------------- bounds
MaxConns == 3
MaxClients == 3
MaxLiveConns == 2
MaxRequests == 2

ConnIds == 1..MaxConns
ClientIds == 1..MaxClients

\* Request inputs
UUIDs == {"A", "B"}
Initiators == BOOLEAN
Datas == {"d1", "d2"}
\* startServer(port): 0 stands for a port that is not supplied
Ports == {0, 3000}
\* Ports portfinder.getPortPromise can come up with
FreePorts == {8000, 8001}

VARIABLES
  connections,  \* the `connections` array: sequence of connection ids
  uuidOf,       \* connection.uuid of every connection created so far
  interval,     \* connections whose res.interval timer is active
  transport,    \* state of each connection's response stream (environment)
  first,        \* history: type of the first packet passed to res.sseSend
  failed,       \* history: connections whose res.write has thrown
  last,         \* history: the latest signaling operation and its effects
  clients,      \* wss.clients
  readyState,   \* client.readyState of every reload client
  bcast,        \* history: the latest reload broadcast and its effects
  preview       \* the run of Preview.startServer and the http server

sigVars == <<connections, uuidOf, interval, transport, first, failed, last>>
reloadVars == <<clients, readyState, bcast>>
startVars == <<preview>>
vars == <<connections, uuidOf, interval, transport, first, failed, last,
          clients, readyState, bcast, preview>>

\* ------------------------------------------------------------- helpers
Min(a, b) == IF a < b THEN a ELSE b
Max(a, b) == IF a > b THEN a ELSE b

Range(s) == {s[i] : i \in 1..Len(s)}

\* Array.prototype.indexOf: 0-based index of the first occurrence, or -1
indexOf(arr, x) ==
  IF \E i \in 1..Len(arr) : arr[i] = x
  THEN (CHOOSE i \in 1..Len(arr) :
          arr[i] = x /\ \A j \in 1..(i - 1) : arr[j] # x) - 1
  ELSE -1

\* Array.prototype.splice(start, deleteCount): a negative start counts from
\* the end of the array
\* Mutant: the deleteCount argument is left out, so the tail goes as well
spliceToEnd(arr, start, deleteCount) ==
  LET len == Len(arr)
      s == IF start < 0 THEN Max(len + start, 0) ELSE Min(start, len)
  IN SubSeq(arr, 1, s)

splice(arr, start, deleteCount) ==
  LET len == Len(arr)
      s == IF start < 0 THEN Max(len + start, 0) ELSE Min(start, len)
      d == Min(Max(deleteCount, 0), len - s)
  IN SubSeq(arr, 1, s) \o SubSeq(arr, s + d + 1, len)

\* 'data: ' + JSON.stringify(data) + '\n\n'
SseFrame(data) == <<"data: ", data, "\n\n">>

\* res.write throws on this connection's response stream
WriteThrows(st, c) == st.transport[c] = "broken"

\* What res.write does with a frame on connection c: it reaches the client,
\* it is dropped without an error (the client is gone), or res.write throws
writeOutcome(st, c) ==
  IF WriteThrows(st, c) THEN "threw"
  ELSE IF st.transport[c] = "open" THEN "delivered" ELSE "dropped"

\* Connections created so far
Created == {c \in ConnIds : transport[c] # "none"}

\* The mutable state a handler works on, with the sends it performs
St0 ==
  [connections |-> connections, interval |-> interval, first |-> first,
   failed |-> failed, transport |-> transport, sends |-> <<>>,
   result |-> FALSE]

\* ------------------------------------------------------------ res.sseSend
\* Mutant: the catch block forgets clearInterval
sseSendLeakTimer(st, c, data) ==
  LET logged ==
        [st EXCEPT
           !.sends = Append(st.sends, [conn |-> c, frame |-> SseFrame(data),
                                       outcome |-> writeOutcome(st, c),
                                       idx |-> indexOf(st.connections, c)]),
           !.first = IF st.first[c] = "none"
                     THEN [st.first EXCEPT ![c] = data.type]
                     ELSE st.first]
  IN IF WriteThrows(st, c)
     THEN [logged EXCEPT
             !.connections = splice(st.connections,
                                    indexOf(st.connections, c), 1),
             !.failed = st.failed \cup {c}]
     ELSE logged

\* Mutant: the catch block clears the timer but keeps the registry entry
sseSendKeepEntry(st, c, data) ==
  LET logged ==
        [st EXCEPT
           !.sends = Append(st.sends, [conn |-> c, frame |-> SseFrame(data),
                                       outcome |-> writeOutcome(st, c),
                                       idx |-> indexOf(st.connections, c)]),
           !.first = IF st.first[c] = "none"
                     THEN [st.first EXCEPT ![c] = data.type]
                     ELSE st.first]
  IN IF WriteThrows(st, c)
     THEN [logged EXCEPT
             !.interval = st.interval \ {c},
             !.failed = st.failed \cup {c}]
     ELSE logged

\* Mutant: the catch block is empty
sseSendSwallow(st, c, data) ==
  LET logged ==
        [st EXCEPT
           !.sends = Append(st.sends, [conn |-> c, frame |-> SseFrame(data),
                                       outcome |-> writeOutcome(st, c),
                                       idx |-> indexOf(st.connections, c)]),
           !.first = IF st.first[c] = "none"
                     THEN [st.first EXCEPT ![c] = data.type]
                     ELSE st.first]
  IN IF WriteThrows(st, c)
     THEN [logged EXCEPT !.failed = st.failed \cup {c}]
     ELSE logged

\* Mutant: a write that does not reach the client evicts as well
sseSendEvictOnDrop(st, c, data) ==
  LET logged ==
        [st EXCEPT
           !.sends = Append(st.sends, [conn |-> c, frame |-> SseFrame(data),
                                       outcome |-> writeOutcome(st, c),
                                       idx |-> indexOf(st.connections, c)]),
           !.first = IF st.first[c] = "none"
                     THEN [st.first EXCEPT ![c] = data.type]
                     ELSE st.first]
  IN IF writeOutcome(st, c) # "delivered"
     THEN [logged EXCEPT
             !.connections = splice(st.connections,
                                    indexOf(st.connections, c), 1),
             !.interval = st.interval \ {c},
             !.failed = IF WriteThrows(st, c) THEN st.failed \cup {c}
                        ELSE st.failed]
     ELSE logged

sseSend(st, c, data) ==
  LET logged ==
        [st EXCEPT
           !.sends = Append(st.sends, [conn |-> c, frame |-> SseFrame(data),
                                       outcome |-> writeOutcome(st, c),
                                       idx |-> indexOf(st.connections, c)]),
           !.first = IF st.first[c] = "none"
                     THEN [st.first EXCEPT ![c] = data.type]
                     ELSE st.first]
  IN IF WriteThrows(st, c)
     THEN [logged EXCEPT
             !.connections = splice(st.connections,
                                    indexOf(st.connections, c), 1),
             !.interval = st.interval \ {c},
             !.failed = st.failed \cup {c}]
     ELSE logged

\* ------------------------------------------------- connections.forEach
\* Array.prototype.forEach visits the indices 0..len-1 of the array as it
\* is when each index is reached; len is the length when the loop started.
RECURSIVE announceForEach(_, _, _, _, _)
announceForEach(st, k, len, uuid, packet) ==
  IF k >= len THEN st
  ELSE IF k >= Len(st.connections)
       THEN announceForEach(st, k + 1, len, uuid, packet)
       ELSE LET c == st.connections[k + 1]
            IN IF uuidOf[c] # uuid
               THEN announceForEach(sseSend(st, c, packet), k + 1, len,
                                    uuid, packet)
               ELSE announceForEach(st, k + 1, len, uuid, packet)

\* Mutant: the uuid test is left out
RECURSIVE signalForEachAny(_, _, _, _, _)
signalForEachAny(st, k, len, uuid, packet) ==
  IF k >= len THEN st
  ELSE IF k >= Len(st.connections)
       THEN signalForEachAny(st, k + 1, len, uuid, packet)
       ELSE LET c == st.connections[k + 1]
            IN signalForEachAny(
                 [sseSend(st, c, packet) EXCEPT !.result = TRUE],
                 k + 1, len, uuid, packet)

RECURSIVE signalForEach(_, _, _, _, _)
signalForEach(st, k, len, uuid, packet) ==
  IF k >= len THEN st
  ELSE IF k >= Len(st.connections)
       THEN signalForEach(st, k + 1, len, uuid, packet)
       ELSE LET c == st.connections[k + 1]
            IN IF uuidOf[c] = uuid
               THEN signalForEach(
                      [sseSend(st, c, packet) EXCEPT !.result = TRUE],
                      k + 1, len, uuid, packet)
               ELSE signalForEach(st, k + 1, len, uuid, packet)

\* ---------------------------------------------------------------- packets
AcceptPacket == [type |-> "accept"]
PingPacket == [type |-> "ping"]
AnnouncePacket(uuid) == [type |-> "announce", uuid |-> uuid]
SignalPacket(initiator, data, uuid) ==
  [type |-> "signal", initiator |-> initiator, data |-> data, uuid |-> uuid]

\* ------------------------------------------------------------ bookkeeping
Record(op, uuid, conn, packet, st, status) ==
  [op |-> op, uuid |-> uuid, conn |-> conn, packet |-> packet,
   pre |-> connections, preInterval |-> interval, preFailed |-> failed,
   sends |-> st.sends, status |-> status]

Commit(st) ==
  /\ connections' = st.connections
  /\ interval' = st.interval
  /\ first' = st.first
  /\ failed' = st.failed
  /\ transport' = st.transport

\* ------------------------------------------------------------------ Init
Init ==
  /\ connections = <<>>
  /\ uuidOf = [c \in ConnIds |-> "none"]
  /\ interval = {}
  /\ transport = [c \in ConnIds |-> "none"]
  /\ first = [c \in ConnIds |-> "none"]
  /\ failed = {}
  /\ last = [op |-> "none", uuid |-> "none", conn |-> 0,
             packet |-> [type |-> "none"], pre |-> <<>>, preInterval |-> {},
             preFailed |-> {}, sends |-> <<>>, status |-> 0]
  /\ clients = {}
  /\ readyState = [c \in ClientIds |-> "NONE"]
  /\ bcast = [fired |-> FALSE, pre |-> {},
              preState |-> [c \in ClientIds |-> "NONE"], post |-> {},
              sent |-> [c \in ClientIds |-> <<>>], threw |-> FALSE]
  /\ preview = [pc |-> "idle", port |-> 0, resolvedPort |-> 0,
              found |-> "none", foundPort |-> 0,
              dirs |-> [nodeModules |-> FALSE, ecs |-> FALSE, api |-> FALSE],
              watch |-> FALSE, watching |-> FALSE, scan |-> "pending",
              error |-> "none", routes |-> FALSE, ready |-> <<>>,
              listenPort |-> 0, isListening |-> FALSE, requests |-> 0]

\* ------------------------------------------------- signaling operations
\* GET /signaling/:uuid/listen handler, run by next() at the end of sse
\* Mutant: the handler sends nothing
listenHandlerSilent(st, c) == st

listenHandler(st, c) == sseSend(st, c, AcceptPacket)

\* sse middleware followed by the route handler
Listen(uuid, t) ==
  /\ Cardinality(Created) < MaxConns
  /\ LET c == Cardinality(Created) + 1
         opened == [St0 EXCEPT !.transport = [transport EXCEPT ![c] = t],
                               !.interval = interval \cup {c},
                               !.connections = Append(connections, c)]
         st == listenHandler(opened, c)
     IN /\ uuidOf' = [uuidOf EXCEPT ![c] = uuid]
        /\ Commit(st)
        /\ last' = Record("listen", uuid, c, AcceptPacket, st, 200)
  /\ UNCHANGED <<reloadVars, startVars>>

\* Mutant: announce reports whether anything was sent, as signal does
announceStatusBySends(st) == IF st.sends = <<>> THEN 404 ELSE 200

announceStatus(st) == 200

\* POST /signaling/announce
Announce(uuid) ==
  /\ LET packet == AnnouncePacket(uuid)
         st == announceForEach(St0, 0, Len(connections), uuid, packet)
     IN /\ Commit(st)
        /\ last' = Record("announce", uuid, 0, packet, st, announceStatus(st))
  /\ UNCHANGED <<uuidOf, reloadVars, startVars>>

signalStatus(st) == IF st.result THEN 200 ELSE 404

\* Mutant: the target is read from req.body.uuid instead of req.params.uuid
SignalByBodyUuid(uuid, initiator, data, bodyUuid) ==
  /\ LET packet == SignalPacket(initiator, data, bodyUuid)
         st == signalForEach(St0, 0, Len(connections), bodyUuid, packet)
     IN /\ Commit(st)
        /\ last' = Record("signal", uuid, 0, packet, st, signalStatus(st))
  /\ UNCHANGED <<uuidOf, reloadVars, startVars>>

\* POST /signaling/:uuid/signal
Signal(uuid, initiator, data, bodyUuid) ==
  /\ LET packet == SignalPacket(initiator, data, bodyUuid)
         st == signalForEach(St0, 0, Len(connections), uuid, packet)
     IN /\ Commit(st)
        /\ last' = Record("signal", uuid, 0, packet, st, signalStatus(st))
  /\ UNCHANGED <<uuidOf, reloadVars, startVars>>

\* The setInterval callback of connection c fires
Ping(c) ==
  /\ c \in interval
  /\ LET st == sseSend(St0, c, PingPacket)
     IN /\ Commit(st)
        /\ last' = Record("ping", uuidOf[c], c, PingPacket, st, 0)
  /\ UNCHANGED <<uuidOf, reloadVars, startVars>>

\* The listening client goes away; later writes to its response stream are
\* either dropped silently or throw
ClientClose(c, t) ==
  /\ transport[c] = "open"
  /\ transport' = [transport EXCEPT ![c] = t]
  /\ UNCHANGED <<connections, uuidOf, interval, first, failed, last,
                 reloadVars, startVars>>

Next ==
  \/ \E u \in UUIDs, t \in {"open", "broken"} : Listen(u, t)
  \/ \E u \in UUIDs : Announce(u)
  \/ \E u \in UUIDs, i \in Initiators, d \in Datas, b \in UUIDs :
       Signal(u, i, d, b)
  \/ \E c \in ConnIds : Ping(c)
  \/ \E c \in ConnIds, t \in {"closed", "broken"} : ClientClose(c, t)

Spec == Init /\ [][Next]_vars

\* The event loop runs every active keep-alive timer again and again
Fairness == \A c \in ConnIds : WF_vars(Ping(c))

\* The liveness specification: the operations of Next over a registry of at
\* most MaxLiveConns connections; the payload of a signal plays no part in
\* eviction and is fixed
ListenLive(uuid, t) ==
  /\ Cardinality(Created) < MaxLiveConns
  /\ Listen(uuid, t)

NextLive ==
  \/ \E u \in UUIDs, t \in {"open", "broken"} : ListenLive(u, t)
  \/ \E u \in UUIDs : Announce(u)
  \/ \E u \in UUIDs : Signal(u, TRUE, "d1", u)
  \/ \E c \in ConnIds : Ping(c)
  \/ \E c \in ConnIds, t \in {"closed", "broken"} : ClientClose(c, t)

SpecLive == Init /\ [][NextLive]_vars /\ Fairness

\* ------------------------------------------------------- reload broadcast
UpdateText == [text |-> "update"]
UpdateJson == [json |-> [type |-> "update"]]

\* WebSocket.send without a callback: throws unless the socket is OPEN
wsSend(b, c, msg) ==
  IF b.threw THEN b
  ELSE IF readyState[c] # "OPEN" THEN [b EXCEPT !.threw = TRUE]
       ELSE [b EXCEPT !.sent[c] = Append(b.sent[c], msg)]

\* Mutant: the callback sends without looking at readyState
onClientNoGuard(b, c) == wsSend(wsSend(b, c, UpdateText), c, UpdateJson)

\* Mutant: the callback drops a client that is not OPEN from the set
onClientEvict(b, c) ==
  IF readyState[c] = "OPEN"
  THEN wsSend(wsSend(b, c, UpdateText), c, UpdateJson)
  ELSE [b EXCEPT !.clients = b.clients \ {c}]

\* Body of the forEach callback of onProcessingComplete
onClient(b, c) ==
  IF readyState[c] = "OPEN"
  THEN wsSend(wsSend(b, c, UpdateText), c, UpdateJson)
  ELSE b

\* Set.prototype.forEach: insertion order, which is the order of the ids;
\* an exception thrown by the callback ends the loop
RECURSIVE clientsForEach(_, _)
clientsForEach(b, todo) ==
  IF todo = {} \/ b.threw THEN b
  ELSE LET c == CHOOSE x \in todo : \A y \in todo : x <= y
       IN clientsForEach(onClient(b, c), todo \ {c})

\* The callback pushed on watcher.onProcessingComplete runs (settle event)
OnProcessingComplete ==
  /\ LET b0 == [clients |-> clients, sent |-> [c \in ClientIds |-> <<>>],
                threw |-> FALSE]
         b == clientsForEach(b0, clients)
     IN /\ clients' = b.clients
        /\ bcast' = [fired |-> TRUE, pre |-> clients, preState |-> readyState,
                     post |-> b.clients, sent |-> b.sent, threw |-> b.threw]
  /\ UNCHANGED <<readyState, sigVars, startVars>>

\* A reload client connects: the WebSocket server adds it to wss.clients
WsConnect ==
  /\ \E c \in ClientIds :
       /\ readyState[c] = "NONE"
       /\ \A d \in ClientIds : d < c => readyState[d] # "NONE"
       /\ readyState' = [readyState EXCEPT ![c] = "OPEN"]
       /\ clients' = clients \cup {c}
  /\ UNCHANGED <<bcast, sigVars, startVars>>

\* The closing handshake of a reload client starts
WsClosing(c) ==
  /\ readyState[c] = "OPEN"
  /\ readyState' = [readyState EXCEPT ![c] = "CLOSING"]
  /\ UNCHANGED <<clients, bcast, sigVars, startVars>>

\* The socket of a reload client closes: the WebSocket server removes it
\* from wss.clients on the close event
WsClosed(c) ==
  /\ readyState[c] \in {"OPEN", "CLOSING"}
  /\ readyState' = [readyState EXCEPT ![c] = "CLOSED"]
  /\ clients' = clients \ {c}
  /\ UNCHANGED <<bcast, sigVars, startVars>>

NextReload ==
  \/ WsConnect
  \/ \E c \in ClientIds : WsClosing(c)
  \/ \E c \in ClientIds : WsClosed(c)
  \/ OnProcessingComplete

SpecReload == Init /\ [][NextReload]_vars

\* ------------------------------------------------------ Preview.startServer
\* The fixed port used when portfinder fails
FallbackPort == 2044

\* Mutant: the supplied port is never looked at
needsPortfinderAlways(port) == TRUE

\* `!resolvedPort`: no port was supplied
needsPortfinder(port) == port = 0

\* Contents of the project directory: decentraland-ecs and decentraland-api
\* live inside node_modules
Dirs ==
  {d \in [nodeModules : BOOLEAN, ecs : BOOLEAN, api : BOOLEAN] :
     (d.ecs \/ d.api) => d.nodeModules}

\* fail(ErrorType.PREVIEW_ERROR, message): raises the error, which ends
\* startServer
fail(s, type) == [s EXCEPT !.pc = "failed", !.error = type]

\* fs.pathExistsSync(artifactPath), with
\* artifactPath = fs.pathExistsSync(dclEcsPath) ? dclEcsPath : dclApiPath
artifactPathExists(dirs) == IF dirs.ecs THEN dirs.ecs ELSE dirs.api

\* startServer from `if (this.watch)` to the end, one synchronous run
afterScan(s) ==
  LET w == [s EXCEPT !.watching = s.watch]
  IN IF ~w.dirs.nodeModules THEN fail(w, "PREVIEW_ERROR")
     ELSE IF ~artifactPathExists(w.dirs) THEN fail(w, "PREVIEW_ERROR")
     ELSE [w EXCEPT !.routes = TRUE,
                    !.ready = Append(w.ready, w.resolvedPort),
                    !.listenPort = w.resolvedPort,
                    !.pc = "listenPending"]

\* Mutant: the catch around the initial scan does not rethrow
onScanErrorSwallow(s) == afterScan(s)

\* catch (e) { spinner.fail('Hashing files'); throw e }
onScanError(s) == [s EXCEPT !.pc = "failed", !.error = "scan"]

\* startServer(port) up to its first await
StartServer(port, dirs, watch) ==
  /\ preview.pc = "idle"
  /\ preview' = [preview EXCEPT
                 !.port = port, !.dirs = dirs, !.watch = watch,
                 !.resolvedPort = port,
                 !.pc = IF needsPortfinder(port) THEN "awaitPort"
                        ELSE "awaitScan"]
  /\ UNCHANGED <<sigVars, reloadVars>>

\* portfinder.getPortPromise() resolves with port p
PortFound(p) ==
  /\ preview.pc = "awaitPort"
  /\ preview' = [preview EXCEPT !.found = "port", !.foundPort = p,
                            !.resolvedPort = p, !.pc = "awaitScan"]
  /\ UNCHANGED <<sigVars, reloadVars>>

\* portfinder.getPortPromise() rejects
PortFailed ==
  /\ preview.pc = "awaitPort"
  /\ preview' = [preview EXCEPT !.found = "error",
                            !.resolvedPort = FallbackPort,
                            !.pc = "awaitScan"]
  /\ UNCHANGED <<sigVars, reloadVars>>

\* watcher.initialMappingsReady resolves
ScanResolved ==
  /\ preview.pc = "awaitScan"
  /\ preview' = afterScan([preview EXCEPT !.scan = "resolved"])
  /\ UNCHANGED <<sigVars, reloadVars>>

\* watcher.initialMappingsReady rejects
ScanRejected ==
  /\ preview.pc = "awaitScan"
  /\ preview' = onScanError([preview EXCEPT !.scan = "rejected"])
  /\ UNCHANGED <<sigVars, reloadVars>>

\* The http server emits 'listening'
ListenOk ==
  /\ preview.pc = "listenPending"
  /\ preview' = [preview EXCEPT !.isListening = TRUE, !.pc = "listening"]
  /\ UNCHANGED <<sigVars, reloadVars>>

\* The http server emits 'error' (the port is taken): the promise rejects
ListenError ==
  /\ preview.pc = "listenPending"
  /\ preview' = [preview EXCEPT !.pc = "failed", !.error = "listen"]
  /\ UNCHANGED <<sigVars, reloadVars>>

\* The listening server accepts a request
AcceptRequest ==
  /\ preview.isListening
  /\ preview.requests < MaxRequests
  /\ preview' = [preview EXCEPT !.requests = preview.requests + 1]
  /\ UNCHANGED <<sigVars, reloadVars>>

\* The http server emits 'close': the promise resolves
ServerClose ==
  /\ preview.pc = "listening"
  /\ preview' = [preview EXCEPT !.isListening = FALSE, !.pc = "closed"]
  /\ UNCHANGED <<sigVars, reloadVars>>

NextStart ==
  \/ \E p \in Ports, d \in Dirs, w \in BOOLEAN : StartServer(p, d, w)
  \/ \E p \in FreePorts : PortFound(p)
  \/ PortFailed
  \/ ScanResolved
  \/ ScanRejected
  \/ ListenOk
  \/ ListenError
  \/ AcceptRequest
  \/ ServerClose

SpecStart == Init /\ [][NextStart]_vars

\* ------------------------------------------------------------- properties
\* Number of frames the latest operation passed to res.write on connection c
SendsTo(c) ==
  Cardinality({i \in 1..Len(last.sends) : last.sends[i].conn = c})

\* Number of times the latest operation passed frame f to connection c
SendsOf(c, f) ==
  Cardinality({i \in 1..Len(last.sends) :
                 last.sends[i].conn = c /\ last.sends[i].frame = f})

\* Connections on which res.write threw during the latest operation
Threw == {last.sends[i].conn : i \in {j \in 1..Len(last.sends) :
                                        last.sends[j].outcome = "threw"}}

\* Connections the latest announce or signal is addressed to
Eligible ==
  {c \in Range(last.pre) :
     IF last.op = "announce" THEN uuidOf[c] # last.uuid
     ELSE uuidOf[c] = last.uuid}

\* C1: after announce(A), every connection that was listening under another
\* uuid has been sent exactly one frame, the announce packet of A, and no
\* connection listening under A has been sent anything.
C1_AnnounceReachesEveryOther ==
  last.op = "announce" =>
    \A c \in Range(last.pre) :
      IF uuidOf[c] # last.uuid
      THEN /\ SendsTo(c) = 1
           /\ SendsOf(c, SseFrame(AnnouncePacket(last.uuid))) = 1
      ELSE SendsTo(c) = 0

\* C2: a listen keeps every connection already registered (also one under
\* the same uuid), and a signal is sent, with the request's packet unchanged,
\* to every connection that was listening under the target uuid.
C2_SignalReachesEveryDuplicate ==
  /\ last.op = "listen" => \A c \in Range(last.pre) : c \in Range(connections)
  /\ last.op = "signal" =>
       \A c \in Range(last.pre) :
         uuidOf[c] = last.uuid => SendsOf(c, SseFrame(last.packet)) >= 1

\* C3: signal answers 200 when some listener under the target received the
\* packet, 404 when nobody listens under the target, and never 200 when no
\* connection received the packet.
C3_SignalStatus ==
  last.op = "signal" =>
    LET received == \E i \in 1..Len(last.sends) :
                      last.sends[i].outcome = "delivered"
    IN /\ received => last.status = 200
       /\ Eligible = {} => last.status = 404
       /\ last.status = 200 => received

\* C4: when a send of an announce or signal fan-out fails, every other
\* connection the message is addressed to is still sent it, and only the
\* failing connections lose their registry entry and their keep-alive.
C4_FailureIsIsolated ==
  (last.op \in {"announce", "signal"} /\ Threw # {}) =>
    /\ \A c \in Eligible : SendsOf(c, SseFrame(last.packet)) >= 1
    /\ \A c \in Range(last.pre) \ Threw : c \in Range(connections)
    /\ \A c \in last.preInterval \ Threw : c \in interval

\* C5: a connection whose send failed is out of the registry and has no
\* keep-alive timer from that step on, and no later operation passes a frame
\* to a connection whose send had failed before.
C5_FailureEvictsForGood ==
  /\ \A c \in failed : c \notin Range(connections) /\ c \notin interval
  /\ \A i \in 1..Len(last.sends) : last.sends[i].conn \notin last.preFailed

\* A ping, announce or signal performs sends after some connection failed
C5_Witness ==
  /\ last.op \in {"ping", "announce", "signal"}
  /\ last.preFailed # {}
  /\ last.sends # <<>>
  /\ Threw # {}

\* C6: the first packet written on every connection is its accept.
C6_AcceptIsFirst ==
  \A c \in Created : first[c] = "accept"

\* A connection that got its accept is later sent a ping, announce or signal
C6_Witness ==
  /\ last.op \in {"ping", "announce", "signal"}
  /\ \E c \in Created : first[c] = "accept" /\ SendsTo(c) >= 1

\* C7: announce always answers 200.
C7_AnnounceAlways200 ==
  last.op = "announce" => last.status = 200

\* An announce whose sends have all failed
C7_Witness ==
  /\ last.op = "announce"
  /\ last.status = 200
  /\ last.sends # <<>>
  /\ \A i \in 1..Len(last.sends) : last.sends[i].outcome = "threw"

\* C8: a connection whose client has gone away is out of the registry and
\* has no keep-alive timer, and no ping is written to a closed transport.
C8_DisconnectStopsKeepAlive ==
  /\ \A c \in Created :
       transport[c] # "open" => c \notin Range(connections) /\ c \notin interval
  /\ last.op = "ping" =>
       \A i \in 1..Len(last.sends) : last.sends[i].outcome = "delivered"

\* Message m carries the 'update' discriminator
IsUpdate(m) ==
  \/ "text" \in DOMAIN m /\ m.text = "update"
  \/ "json" \in DOMAIN m /\ m.json.type = "update"

\* C9: on a settle event every registered client that reports itself open is
\* sent a message carrying 'update'; every other client is sent nothing; no
\* exception is raised.
C9_ReloadReachesOpenClients ==
  bcast.fired =>
    /\ ~bcast.threw
    /\ \A c \in ClientIds :
         IF c \in bcast.pre /\ bcast.preState[c] = "OPEN"
         THEN /\ bcast.sent[c] # <<>>
              /\ \A i \in 1..Len(bcast.sent[c]) : IsUpdate(bcast.sent[c][i])
         ELSE bcast.sent[c] = <<>>

\* A settle with an open client, a closing client still registered and a
\* client unregistered before the settle
C9_Witness ==
  /\ bcast.fired
  /\ \E c \in bcast.pre : bcast.preState[c] = "OPEN"
  /\ \E c \in bcast.pre : bcast.preState[c] = "CLOSING"
  /\ \E c \in ClientIds : bcast.preState[c] = "CLOSED" /\ c \notin bcast.pre

\* C10 as stated: a target that reports itself not open during a broadcast
\* is no longer in the registered set after that broadcast.
C10_BroadcastDropsClosedTargets ==
  bcast.fired =>
    \A c \in bcast.pre : bcast.preState[c] # "OPEN" => c \notin bcast.post

\* C10 amended: a broadcast sends nothing to a target that reports itself
\* not open and leaves the registered set as it was; a client leaves the set
\* only when its socket closes.
C10_BroadcastKeepsRegisteredSet ==
  /\ bcast.fired =>
       /\ bcast.post = bcast.pre
       /\ \A c \in bcast.pre :
            bcast.preState[c] # "OPEN" => bcast.sent[c] = <<>>
  /\ \A c \in ClientIds :
       c \in clients <=> readyState[c] \in {"OPEN", "CLOSING"}

\* A broadcast over a set holding a client that reports itself closing
C10_Witness ==
  /\ bcast.fired
  /\ \E c \in bcast.post : bcast.preState[c] = "CLOSING"

\* The registry the latest operation worked on: the one before it, with the
\* new connection at the end for a listen
Worked ==
  IF last.op = "listen" THEN Append(last.pre, last.conn) ELSE last.pre

\* Sequence s without the members of set S, order kept
Without(s, S) ==
  LET Keep(x) == x \notin S IN SelectSeq(s, Keep)

\* Number of times res.write threw on connection c in the latest operation
ThrowsOn(c) ==
  Cardinality({i \in 1..Len(last.sends) :
                 last.sends[i].conn = c /\ last.sends[i].outcome = "threw"})

\* C13: a connection is in the registry exactly when its keep-alive timer is
\* active, and clearInterval runs at most once per connection: at most once
\* within an operation and never for a connection evicted earlier.
C13_RegistryMatchesTimers ==
  /\ Range(connections) = interval
  /\ \A c \in ConnIds :
       /\ ThrowsOn(c) <= 1
       /\ c \in last.preFailed => ThrowsOn(c) = 0

\* A send fails while an earlier failure is already recorded and other
\* connections keep listening
C13_Witness ==
  /\ last.preFailed # {}
  /\ \E c \in ConnIds : ThrowsOn(c) = 1
  /\ connections # <<>>

\* C14: a signal nobody listens for answers 404, performs no send and leaves
\* registry, timers and failure record as they were.
C14_UnknownTargetIsPure ==
  (last.op = "signal" /\ Eligible = {}) =>
    /\ last.status = 404
    /\ last.sends = <<>>
    /\ connections = last.pre
    /\ interval = last.preInterval
    /\ failed = last.preFailed

\* A signal to a uuid without listener while a connection whose writes throw
\* listens under another uuid
C14_Witness ==
  /\ last.op = "signal"
  /\ Eligible = {}
  /\ \E c \in Range(last.pre) : transport[c] = "broken"

\* C16: a signal is only sent to connections listening under its target, and
\* an announce or signal only to connections registered when it was handled.
C16_NoMisdelivery ==
  /\ last.op = "signal" =>
       \A i \in 1..Len(last.sends) : uuidOf[last.sends[i].conn] = last.uuid
  /\ last.op \in {"announce", "signal"} =>
       \A i \in 1..Len(last.sends) : last.sends[i].conn \in Range(last.pre)

\* A signal whose payload uuid differs from its target reaches a listener
\* while another connection listens under the payload uuid
C16_Witness ==
  /\ last.op = "signal"
  /\ last.packet.uuid # last.uuid
  /\ last.sends # <<>>
  /\ \E c \in Range(last.pre) : uuidOf[c] = last.packet.uuid

\* C17: res.sseSend is only called for a connection present in the array
\* (indexOf never yields -1), and the registry after an operation is the one
\* it worked on without the connections whose write threw, in the same order.
C17_EvictionRemovesExactlyTheFailed ==
  /\ \A i \in 1..Len(last.sends) : last.sends[i].idx >= 0
  /\ connections = Without(Worked, Threw)

\* A failing send evicts a connection that is not the last of the array
C17_Witness ==
  /\ Threw # {}
  /\ Len(last.pre) >= 2
  /\ \E c \in Threw : c # last.pre[Len(last.pre)]
  /\ connections # <<>>

\* C19: an announce or signal without a failing send leaves registry and
\* timers as they were; a listen adds at most its own entry; every other
\* operation can only shrink the registry, and only when a send failed.
C19_RegistryFrame ==
  /\ (last.op \in {"announce", "signal"} /\ Threw = {}) =>
       (connections = last.pre /\ interval = last.preInterval)
  /\ last.op = "listen" =>
       (connections = Append(last.pre, last.conn) \/ connections = last.pre)
  /\ last.op # "listen" =>
       /\ Len(connections) <= Len(last.pre)
       /\ Len(connections) < Len(last.pre) => Threw # {}

\* An announce or signal whose sends all go through without an error, one
\* of them to a client that is gone
C19_Witness ==
  /\ last.op \in {"announce", "signal"}
  /\ Threw = {}
  /\ \E i \in 1..Len(last.sends) : last.sends[i].outcome = "dropped"
  /\ \E i \in 1..Len(last.sends) : last.sends[i].outcome = "delivered"

\* C18: with the keep-alive timers running, a registered connection whose
\* writes throw is eventually out of the registry.
C18_FailingConnectionIsEvicted ==
  \A c \in ConnIds :
    (c \in Range(connections) /\ transport[c] = "broken")
      ~> (c \notin Range(connections))

\* A registered connection whose writes throw and that no announce or signal
\* has been addressed to, followed by its eviction by a ping
C18_Witness ==
  /\ last.op = "ping"
  /\ last.conn \in Threw
  /\ last.conn \notin Range(connections)
  /\ \E c \in Range(connections) : transport[c] = "closed"

\* The required directories are there
DirsOk == preview.dirs.nodeModules /\ (preview.dirs.ecs \/ preview.dirs.api)

\* C11 as stated: preview:ready is emitted at most once, only after the
\* initial scan succeeded and only once the server is listening, and no
\* request is accepted before the scan has completed.
C11_ReadyOnceListening ==
  /\ Len(preview.ready) <= 1
  /\ preview.ready # <<>> =>
       (preview.scan = "resolved" /\ preview.pc \in {"listening", "closed"})
  /\ preview.requests > 0 => preview.scan = "resolved"

\* C12: when the initial scan fails or a required directory is absent,
\* startServer ends with an error, and ready signal, signaling routes and
\* listening never come about.
C12_FatalStartupErrors ==
  (preview.scan = "rejected" \/ (preview.scan = "resolved" /\ ~DirsOk)) =>
    /\ preview.pc = "failed"
    /\ preview.error # "none"
    /\ preview.ready = <<>>
    /\ ~preview.routes
    /\ preview.listenPort = 0
    /\ ~preview.isListening
    /\ preview.requests = 0

\* The initial scan fails in a project that has every required directory
C12_Witness ==
  /\ preview.scan = "rejected"
  /\ DirsOk
  /\ preview.pc = "failed"

\* C15: the resolved port is the supplied port when there is one, else the
\* port portfinder found, else 2044; the ready signal carries the port the
\* server is told to listen on.
C15_PortResolution ==
  /\ preview.pc \notin {"idle", "awaitPort"} =>
       preview.resolvedPort =
         (IF preview.port # 0 THEN preview.port
          ELSE IF preview.found = "port" THEN preview.foundPort
          ELSE 2044)
  /\ preview.ready # <<>> =>
       (preview.ready[1] = preview.listenPort
        /\ preview.listenPort = preview.resolvedPort)
  /\ preview.port # 0 => preview.found = "none"

\* The server listens on the fallback port after portfinder failed
C15_Witness ==
  /\ preview.pc = "listening"
  /\ preview.port = 0
  /\ preview.found = "error"
  /\ preview.ready = <<2044>>

====
